---- MODULE Spec2Model ----
(***************************************************************************)
(* Model of main.py: the ADF transformer generate_adf_xml, the notifier    *)
(* send_email, the startup batch of __main__ and the /webhook handler      *)
(* handle_webhook with its process-wide dedup set processed_leads and the  *)
(* shared file lead_export.xml.                                            *)
(***************************************************************************)
EXTENDS Integers, Sequences, FiniteSets, TLC

(***************************************************************************)
(* Python values.  A value is a record [t, v]: t is the Python type, v the *)
(* payload (a string, a function from keys to values, a sequence).         *)
(***************************************************************************)
PyStr(s) == [t |-> "str", v |-> s]

PyNone == [t |-> "none", v |-> "None"]

PyDict(f) == [t |-> "dict", v |-> f]

PyList(q) == [t |-> "list", v |-> q]

EmptyDict == PyDict([k \in {} |-> PyNone])

\* bool(value): the test of `if value:` and `if not value:`.
Truthy(val) ==
  CASE val.t = "str" -> val.v # ""
    [] val.t = "none" -> FALSE
    [] val.t = "dict" -> DOMAIN val.v # {}
    [] val.t = "list" -> Len(val.v) > 0

\* str(value), for the values an identifier or a vehicle field takes here.
Str(val) ==
  CASE val.t = "str" -> val.v
    [] val.t = "none" -> "None"
    [] val.t = "list" /\ val.v = <<>> -> "[]"

\* hash(value) succeeds: a list or a dict is unhashable.
Hashable(val) == val.t \in {"str", "none"}

\* mapping.get(key, default) on the contents of a dict.
Get(d, key, default) == IF key \in DOMAIN d THEN d[key] ELSE default

\* value[:n] of a string.
Prefix(s, n) == SubSeq(s, 1, IF Len(s) < n THEN Len(s) ELSE n)

(***************************************************************************)
(* lxml elements.  text is <<>> while no text was assigned (None) and      *)
(* <<s>> once the string s was assigned; attrs is the keyword attributes   *)
(* in the order given; kids the children in document order.                *)
(***************************************************************************)
El(tag, attrs, text, kids) ==
  [tag |-> tag, attrs |-> attrs, text |-> text, kids |-> kids]

\* element.text = value, which lxml accepts for a string or None.
Text(val) == IF val.t = "none" THEN <<>> ELSE <<val.v>>

TextOk(val) == val.t \in {"str", "none"}

RequestDateLen == 19

\* Line 62: the first id element, with the record's Contact Source.
IdElement(lead) ==
  El("id", <<<<"sequence", "uniqueLeadId">>,
             <<"source", Get(lead, "Contact Source", PyStr("")).v>>>>,
     <<Str(Get(lead, "id", PyStr("")))>>, <<>>)

\* Lines 66-67: requestdate, the first 19 characters of createdAt.
RequestDate(lead) ==
  El("requestdate", <<>>,
     <<Prefix(Get(lead, "createdAt", PyStr("")).v, RequestDateLen)>>, <<>>)

\* Line 77: the element name of a vehicle key, key.split(" ")[1].lower().
VehicleTag(key) ==
  CASE key = "Vehicle Year" -> "year"
    [] key = "Vehicle Make" -> "make"
    [] key = "Vehicle Model" -> "model"

VehicleKeys == <<"Vehicle Year", "Vehicle Make", "Vehicle Model">>

\* Lines 74-77: year, make, model, each only for a truthy value.
RECURSIVE VehicleParts(_, _)
VehicleParts(info, i) ==
  IF i > Len(VehicleKeys) THEN <<>>
  ELSE LET value == Get(info, VehicleKeys[i], PyStr(""))
       IN  (IF Truthy(value)
            THEN <<El(VehicleTag(VehicleKeys[i]), <<>>, <<Str(value)>>, <<>>)>>
            ELSE <<>>) \o VehicleParts(info, i + 1)

\* Lines 71-78: vehicle, always with vin and the empty stock placeholder.
Vehicle(lead) ==
  LET info == Get(lead, "Additional Info", EmptyDict).v
  IN  El("vehicle", <<<<"interest", "buy">>, <<"status", "used">>>>, <<>>,
         <<El("vin", <<>>, Text(Get(info, "Vehicle Vin", PyStr(""))), <<>>)>>
         \o VehicleParts(info, 1)
         \o <<El("stock", <<>>, <<"">>, <<>>)>>)

NameKeys == <<"firstName", "lastName", "email">>

\* Lines 86-88: a name element with its part, or the email element.
NameElement(key, value) ==
  El(IF key # "email" THEN "name" ELSE key,
     <<<<"part", IF key = "firstName" THEN "first"
                 ELSE IF key = "lastName" THEN "last" ELSE "">>,
       <<"type", "individual">>>>,
     <<value.v>>, <<>>)

RECURSIVE Names(_, _)
Names(lead, i) ==
  IF i > Len(NameKeys) THEN <<>>
  ELSE LET value == Get(lead, NameKeys[i], PyStr(""))
       IN  (IF Truthy(value) THEN <<NameElement(NameKeys[i], value)>> ELSE <<>>)
           \o Names(lead, i + 1)

\* Line 91: phone_types, in insertion order.
phone_types ==
  <<<<"homePhone", "home">>, <<"cellPhone", "mobile">>, <<"workPhone", "work">>>>

RECURSIVE Phones(_, _)
Phones(lead, i) ==
  IF i > Len(phone_types) THEN <<>>
  ELSE LET value == Get(lead, phone_types[i][1], PyStr(""))
       IN  (IF Truthy(value)
            THEN <<El("phone", <<<<"type", phone_types[i][2]>>>>, <<value.v>>, <<>>)>>
            ELSE <<>>) \o Phones(lead, i + 1)

\* Lines 98-100: the comments element of AI Memory.
MemoryComments(lead) ==
  LET comments == Get(lead, "AI Memory", PyStr(""))
  IN  IF Truthy(comments) THEN <<El("comments", <<>>, <<comments.v>>, <<>>)>>
      ELSE <<>>

\* Lines 121-124: CUSTOMER.COMMENTS, joined with Chat GPT when that is set.
CombinedComments(lead) ==
  LET comments == Get(Get(lead, "CUSTOMER", EmptyDict).v, "COMMENTS", PyStr(""))
      ai_memory == Get(lead, "Chat GPT", PyStr(""))
  IN  IF Truthy(ai_memory)
      THEN PyStr(Str(comments) \o "\n\nAI Memory:\n" \o Str(ai_memory))
      ELSE comments

\* Lines 125-126: the second comments element, appended to customer.
LateComments(lead) ==
  IF Truthy(CombinedComments(lead))
  THEN <<El("comments", <<>>, <<CombinedComments(lead).v>>, <<>>)>>
  ELSE <<>>

\* Lines 81-100 and 126: customer, with contact and the comments elements.
Customer(lead) ==
  El("customer", <<>>, <<>>,
     <<El("contact", <<>>, <<>>, Names(lead, 1) \o Phones(lead, 1))>>
     \o MemoryComments(lead) \o LateComments(lead))

\* Lines 103-108: the fixed vendor block.
FixedVendor ==
  El("vendor", <<>>, <<>>,
     <<El("vendorname", <<>>, <<"Your Dealership Name">>, <<>>),
       El("contact", <<>>, <<>>,
          <<El("name", <<<<"part", "full">>>>, <<"Your Dealership Name">>, <<>>),
            El("email", <<>>, <<"your_dealership_email@example.com">>, <<>>),
            El("phone", <<<<"type", "business">>>>, <<"Your Dealership Phone">>, <<>>)>>)>>)

\* Lines 111-113 and 135-137: a provider block.
Provider(name, service) ==
  El("provider", <<>>, <<>>,
     <<El("name", <<<<"part", "full">>>>, <<name>>, <<>>),
       El("service", <<>>, <<service>>, <<>>)>>)

\* Lines 116-117: the second id element, with the hardcoded source.
VerbleadId(lead) ==
  El("id", <<<<"sequence", "1">>, <<"source", "VERBLEAD">>>>,
     <<Str(Get(lead, "id", PyStr("")))>>, <<>>)

\* Lines 129-132: the vendor element of VENDOR.VENDORNAME.
LeadVendor(lead) ==
  LET vendor_name == Get(Get(lead, "VENDOR", EmptyDict).v, "VENDORNAME", PyStr(""))
  IN  IF Truthy(vendor_name)
      THEN <<El("vendor", <<>>, <<>>,
                <<El("vendorname", <<>>, <<vendor_name.v>>, <<>>)>>)>>
      ELSE <<>>

\* Lines 142-143 over a list: one tag element per entry, in order.
TagsOfSeq(q) == [i \in 1..Len(q) |-> El("tag", <<>>, Text(q[i]), <<>>)]

\* Lines 141-143: iterating a string yields its characters.
Tags(lead) ==
  LET tags == Get(lead, "tags", PyList(<<>>))
  IN  CASE tags.t = "list" -> TagsOfSeq(tags.v)
        [] tags.t = "str" ->
             [i \in 1..Len(tags.v) |-> El("tag", <<>>, <<SubSeq(tags.v, i, i)>>, <<>>)]

\* Lines 57-143: the prospect of one record that raises nothing.
Prospect(lead) ==
  El("prospect", <<>>, <<>>,
     <<IdElement(lead), RequestDate(lead), Vehicle(lead), Customer(lead),
       FixedVendor, Provider("VinSolutions", "VinSolutions Lead Service"),
       VerbleadId(lead)>>
     \o LeadVendor(lead)
     \o <<Provider("VERBLEAD", "AI Sales")>>
     \o Tags(lead))

(***************************************************************************)
(* Exceptions.  A record whose field has a type the code does not expect   *)
(* makes a statement raise; the checks below follow the statements of the  *)
(* loop body in order, and the first that raises ends the call.            *)
(***************************************************************************)
NoExc == "none"

\* element.text = value for a truthy value: lxml rejects a non-string.
TruthyTextExc(val) ==
  IF Truthy(val) /\ val.t # "str" THEN "TypeError" ELSE NoExc

\* value.get(...) on the value found under a nested-mapping key.
MappingExc(val) == IF val.t # "dict" THEN "AttributeError" ELSE NoExc

TagsExc(tags) ==
  CASE tags.t = "none" -> "TypeError"
    [] tags.t = "list" ->
         IF \E i \in 1..Len(tags.v) : ~TextOk(tags.v[i]) THEN "TypeError" ELSE NoExc
    [] tags.t = "str" -> NoExc

\* What each raising statement of lines 57-143 does for this record, in order.
LeadChecks(lead) ==
  LET info == Get(lead, "Additional Info", EmptyDict)
      customer == Get(lead, "CUSTOMER", EmptyDict)
      vendor == Get(lead, "VENDOR", EmptyDict)
  IN  << \* 62: source= must be a string
         IF Get(lead, "Contact Source", PyStr("")).t # "str" THEN "TypeError" ELSE NoExc,
         \* 66-67: createdAt[:19] and its assignment as text
         IF Get(lead, "createdAt", PyStr("")).t # "str" THEN "TypeError" ELSE NoExc,
         \* 73: vehicle_info.get, and vin's text
         MappingExc(info),
         IF info.t = "dict" /\ ~TextOk(Get(info.v, "Vehicle Vin", PyStr("")))
         THEN "TypeError" ELSE NoExc,
         \* 83-88
         TruthyTextExc(Get(lead, "firstName", PyStr(""))),
         TruthyTextExc(Get(lead, "lastName", PyStr(""))),
         TruthyTextExc(Get(lead, "email", PyStr(""))),
         \* 92-95
         TruthyTextExc(Get(lead, "homePhone", PyStr(""))),
         TruthyTextExc(Get(lead, "cellPhone", PyStr(""))),
         TruthyTextExc(Get(lead, "workPhone", PyStr(""))),
         \* 98-100
         TruthyTextExc(Get(lead, "AI Memory", PyStr(""))),
         \* 121: lead.get("CUSTOMER", {}).get
         MappingExc(customer),
         \* 125-126: comments is a string once Chat GPT was joined to it
         IF customer.t = "dict" /\ ~Truthy(Get(lead, "Chat GPT", PyStr("")))
         THEN TruthyTextExc(Get(customer.v, "COMMENTS", PyStr(""))) ELSE NoExc,
         \* 129-132
         MappingExc(vendor),
         IF vendor.t = "dict"
         THEN TruthyTextExc(Get(vendor.v, "VENDORNAME", PyStr(""))) ELSE NoExc,
         \* 141-143
         TagsExc(Get(lead, "tags", PyList(<<>>))) >>

RECURSIVE FirstExc(_, _)
FirstExc(checks, i) ==
  IF i > Len(checks) THEN NoExc
  ELSE IF checks[i] # NoExc THEN checks[i] ELSE FirstExc(checks, i + 1)

\* The exception the loop body raises for this record, or NoExc.
LeadException(lead) == FirstExc(LeadChecks(lead), 1)

(***************************************************************************)
(* generate_adf_xml.  Its result is None, a document (the adf root with    *)
(* its prospects; etree.tostring of it is never empty, so the document is  *)
(* truthy), or the exception that left the call.                           *)
(***************************************************************************)
NoDocument == [kind |-> "None"]

Document(prospects) == [kind |-> "doc", root |-> El("adf", <<>>, <<>>, prospects)]

Raised(exc) == [kind |-> "raise", exc |-> exc]

\* Prospects with each prospect inserted before the ones already built.
RECURSIVE ProspectsPrepending(_, _, _)
ProspectsPrepending(leads_data, i, done) ==
  IF i > Len(leads_data) THEN [kind |-> "doc", root |-> El("adf", <<>>, <<>>, done)]
  ELSE IF leads_data[i].t # "dict" THEN [kind |-> "raise", exc |-> "AttributeError"]
  ELSE IF LeadException(leads_data[i].v) # NoExc
       THEN [kind |-> "raise", exc |-> LeadException(leads_data[i].v)]
       ELSE ProspectsPrepending(leads_data, i + 1,
                                <<Prospect(leads_data[i].v)>> \o done)

\* Lines 56-143: the loop, appending one prospect per record in turn.  A
\* record that is no mapping has no .get (line 61).
RECURSIVE Prospects(_, _, _)
Prospects(leads_data, i, done) ==
  IF i > Len(leads_data) THEN Document(done)
  ELSE IF leads_data[i].t # "dict" THEN Raised("AttributeError")
  ELSE IF LeadException(leads_data[i].v) # NoExc
       THEN Raised(LeadException(leads_data[i].v))
       ELSE Prospects(leads_data, i + 1, Append(done, Prospect(leads_data[i].v)))

\* Lines 49-145.
generate_adf_xml(leads_data) ==
  IF leads_data = <<>> THEN NoDocument ELSE Prospects(leads_data, 1, <<>>)

(***************************************************************************)
(* Inputs.  The raw lead records the fetch and the webhook deliver.        *)
(***************************************************************************)
LeadOnlyId == PyDict("id" :> PyStr("a"))

LeadAna ==
  PyDict(("id" :> PyStr("a")) @@ ("firstName" :> PyStr("Ana"))
         @@ ("tags" :> PyList(<<PyStr("hot"), PyStr("callback")>>)))

LeadFull ==
  PyDict(("id" :> PyStr("b")) @@ ("Contact Source" :> PyStr("web"))
         @@ ("createdAt" :> PyStr("2024-01-02T03:04:05.000Z"))
         @@ ("Additional Info" :>
               PyDict(("Vehicle Vin" :> PyStr("VIN1")) @@ ("Vehicle Year" :> PyStr("2020"))
                      @@ ("Vehicle Make" :> PyStr(""))))
         @@ ("email" :> PyStr("a@b.com")) @@ ("cellPhone" :> PyStr("555"))
         @@ ("AI Memory" :> PyStr("likes red"))
         @@ ("CUSTOMER" :> PyDict("COMMENTS" :> PyStr("call me")))
         @@ ("Chat GPT" :> PyStr("memo"))
         @@ ("VENDOR" :> PyDict("VENDORNAME" :> PyStr("Classic Kia")))
         @@ ("tags" :> PyStr("ab")))

LeadNoId == PyDict(("lastName" :> PyStr("Lee")) @@ ("tags" :> PyList(<<>>)))

\* createdAt is null: line 66 raises TypeError.
LeadNullDate == PyDict(("id" :> PyStr("b")) @@ ("createdAt" :> PyNone))

\* Additional Info is a string: line 73 raises AttributeError.
LeadTextInfo == PyDict(("id" :> PyStr("a")) @@ ("Additional Info" :> PyStr("suv")))

\* The identifier is a list: unhashable.
LeadListId == PyDict("id" :> PyList(<<>>))

\* The contacts the CRM may return.
FetchLeads == {LeadOnlyId, LeadAna, LeadFull, LeadNullDate}

MaxBatch == 2

RECURSIVE SeqsUpTo(_, _)
SeqsUpTo(S, n) ==
  IF n = 0 THEN {<<>>}
  ELSE LET shorter == SeqsUpTo(S, n - 1)
       IN  shorter \cup {Append(q, x) : q \in shorter, x \in S}

\* A request body: text that parses to the JSON value data, or does not parse.
Body(data) == [parses |-> TRUE, data |-> data]

Malformed == [parses |-> FALSE, data |-> PyNone]

Bodies ==
  {Malformed, Body(EmptyDict), Body(PyNone), Body(PyList(<<PyStr("x")>>))}
  \cup {Body(l) : l \in {LeadOnlyId, LeadAna, LeadFull, LeadNoId, LeadNullDate,
                         LeadTextInfo, LeadListId}}

MaxRequests == 2

\* The identifiers a webhook can record: lead_data.get("id").
LeadIds == {PyStr("a"), PyStr("b"), PyNone}

(***************************************************************************)
(* State.                                                                  *)
(***************************************************************************)
VARIABLES
  phase,            \* where __main__ is: "startup", "serving" or "crashed"
  leads,            \* the global leads of __main__ (line 217)
  adf_xml,          \* the global adf_xml of __main__ (line 218)
  processed_leads,  \* line 160
  shutdown_event,   \* line 161
  file,             \* the content of lead_export.xml
  outbox,           \* the emails the mail service accepted, oldest first
  nreq,             \* the webhook requests received so far
  cycles,           \* per identifier, the requests that ran the transform
  last,             \* the most recent webhook request handled and its answer
  thr               \* the request threads of the threaded server

vars ==
  <<phase, leads, adf_xml, processed_leads, shutdown_event, file, outbox, nreq,
    cycles, last, thr>>

NoFile == [kind |-> "absent"]

\* The file right after open(..., "wb"): truncated, nothing flushed yet.
EmptyFile == [kind |-> "empty"]

Recipient == "DRIVECENTRIC_IMPORT_EMAIL"

Email(subject, attachment) ==
  [to |-> Recipient, subject |-> subject, attachment |-> attachment]

LogEntry(level, msg, payload) == [level |-> level, msg |-> msg, payload |-> payload]

(***************************************************************************)
(* send_email, lines 149-155: what the call adds to the outbox and to the  *)
(* log, and whether an exception leaves it.  Any exception of the mail     *)
(* library is caught at line 154, so none does.                            *)
(***************************************************************************)
SmtpOutcomes == {"accepted", "refused"}

\* send_email without the except clause of line 154.
send_email_uncaught(smtp, subject, attachment) ==
  IF smtp = "accepted"
  THEN [mail |-> <<Email(subject, attachment)>>,
        log |-> <<LogEntry("info", "Email sent", <<>>)>>,
        raised |-> FALSE]
  ELSE [mail |-> <<>>, log |-> <<>>, raised |-> TRUE]

send_email(smtp, subject, attachment) ==
  IF smtp = "accepted"
  THEN [mail |-> <<Email(subject, attachment)>>,
        log |-> <<LogEntry("info", "Email sent", <<>>)>>,
        raised |-> FALSE]
  ELSE [mail |-> <<>>,
        log |-> <<LogEntry("error", "Error sending email", <<>>)>>,
        raised |-> FALSE]

(***************************************************************************)
(* request.get_json(), line 168: the parsed value, or BadRequest for a     *)
(* body that is not JSON.                                                  *)
(***************************************************************************)
get_json(req) ==
  IF req.parses THEN [kind |-> "value", val |-> req.data] ELSE Raised("BadRequest")

Json(key, text) == <<key, text>>

\* What one run of handle_webhook did: the answer, the log entries, the
\* exception that ended it and the steps it went through.
Outcome(status, json, log, exc) ==
  [status |-> status, json |-> json, log |-> log, exc |-> exc, added |-> FALSE,
   ran |-> FALSE, wrote |-> FALSE, emailed |-> FALSE]

\* Lines 200-205.  Both handlers format lead_data into the log message; when
\* get_json raised, lead_data was never bound, the handler itself raises
\* UnboundLocalError and Flask answers with its own 500 page.
ExceptClause(exc, bound, lead_data) ==
  IF ~bound
  THEN Outcome(500, <<>>, <<LogEntry("error", "Exception on /webhook [POST]", <<>>)>>,
               exc)
  ELSE IF exc \in {"ValueError", "KeyError", "TypeError"}
  THEN Outcome(400, Json("error", "Error processing lead"),
               <<LogEntry("error", "Webhook error", <<lead_data>>)>>, exc)
  ELSE Outcome(500, Json("error", "Internal Server Error"),
               <<LogEntry("error", "Unexpected webhook error", <<lead_data>>)>>, exc)

\* The write with the file opened for appending.
WriteFileAppending(old, doc) ==
  IF old.kind = "doc"
  THEN [kind |-> "doc", root |-> El("adf", <<>>, <<>>, old.root.kids \o doc.root.kids)]
  ELSE doc

\* Lines 184-185: open(..., "wb") and write replace what the file held.
WriteFile(old, doc) == doc

\* Lines 187-196, once the document is in the file: notify and answer.
Notify(lead_data, smtp, attachment) ==
  LET sent == send_email(smtp, "New Lead from GHL", attachment)
  IN  [out |-> [(IF sent.raised
                 THEN ExceptClause("SMTPException", TRUE, lead_data)
                 ELSE Outcome(200, Json("message", "Lead processed successfully"),
                              sent.log, NoExc))
                  EXCEPT !.added = TRUE, !.ran = TRUE, !.wrote = TRUE,
                         !.emailed = TRUE],
       mail |-> sent.mail,
       set |-> ~sent.raised]

\* Lines 181-183 and 197-205, for a transform that returned no document.
NoDocumentAnswer(adf, lead_data) ==
  [(IF adf.kind = "raise" THEN ExceptClause(adf.exc, TRUE, lead_data)
    ELSE Outcome(400,
                 Json("error", "Error processing lead (no valid ADF XML generated)"),
                 <<>>, NoExc))
     EXCEPT !.added = TRUE, !.ran = TRUE]

\* The membership test against a set that is never consulted.
IsDuplicateNever(lead_id, processed) == FALSE

\* Line 175.
IsDuplicate(lead_id, processed) == lead_id \in processed

\* The insertion guarded by the identifier's truthiness.
AddLeadIfTruthy(processed, lead_id) ==
  IF Truthy(lead_id) THEN processed \cup {lead_id} ELSE processed

\* Line 179.
AddLead(processed, lead_id) == processed \cup {lead_id}

DuplicateAnswer ==
  Outcome(200, Json("message", "Duplicate lead, ignoring"),
          <<LogEntry("warning", "Duplicate lead detected", <<>>)>>, NoExc)

EmptyAnswer == Outcome(400, Json("error", "Invalid or empty JSON payload"), <<>>, NoExc)

\* Lines 168-177: what ends the request before line 179, or <<>>.
EarlyAnswer(req, processed) ==
  LET got == get_json(req)
  IN  IF got.kind = "raise" THEN <<ExceptClause(got.exc, FALSE, PyNone)>>
      ELSE IF ~Truthy(got.val) THEN <<EmptyAnswer>>
      ELSE IF got.val.t # "dict" THEN <<ExceptClause("AttributeError", TRUE, got.val)>>
      ELSE IF ~Hashable(Get(got.val.v, "id", PyNone))
      THEN <<ExceptClause("TypeError", TRUE, got.val)>>
      ELSE IF IsDuplicate(Get(got.val.v, "id", PyNone), processed)
      THEN <<DuplicateAnswer>>
      ELSE <<>>

NoRequest ==
  [req |-> Malformed, smtp |-> "accepted", out |-> Outcome(0, <<>>, <<>>, NoExc)]

Init ==
  /\ phase = "startup"
  /\ leads = <<>>
  /\ adf_xml = NoDocument
  /\ processed_leads = {}
  /\ shutdown_event = FALSE
  /\ file = NoFile
  /\ outbox = <<>>
  /\ nreq = 0
  /\ cycles = [i \in LeadIds |-> 0]
  /\ last = NoRequest
  /\ thr = <<>>

(***************************************************************************)
(* __main__, lines 217-238: fetch, transform, write, email, then serve.    *)
(* An exception of the transform is handled nowhere and ends the process.  *)
(* The email names lead_export.xml among its contents, which the mail      *)
(* library attaches as the file it is.                                     *)
(***************************************************************************)
Startup ==
  /\ phase = "startup"
  /\ \E fetched \in SeqsUpTo(FetchLeads, MaxBatch), smtp \in SmtpOutcomes :
       LET adf == generate_adf_xml(fetched)
           sent == send_email(smtp, "New Leads from GHL", adf)
       IN  /\ leads' = fetched
           /\ IF adf.kind = "raise"
              THEN /\ phase' = "crashed"
                   /\ UNCHANGED <<adf_xml, file, outbox>>
              ELSE /\ adf_xml' = adf
                   /\ IF adf.kind = "doc"
                      THEN /\ file' = WriteFile(file, adf)
                           /\ outbox' = outbox \o sent.mail
                           /\ phase' = IF sent.raised THEN "crashed" ELSE "serving"
                      ELSE /\ phase' = "serving"
                           /\ UNCHANGED <<file, outbox>>
  /\ UNCHANGED <<processed_leads, shutdown_event, nreq, cycles, last, thr>>

(***************************************************************************)
(* POST /webhook handled alone, lines 165-205.                             *)
(***************************************************************************)
handle_webhook ==
  /\ phase = "serving"
  /\ nreq < MaxRequests
  /\ \E req \in Bodies, smtp \in SmtpOutcomes :
       LET early == EarlyAnswer(req, processed_leads)
           lead_data == req.data
           lead_id == Get(lead_data.v, "id", PyNone)
           adf == generate_adf_xml(<<lead_data>>)
           notified == Notify(lead_data, smtp, WriteFile(file, adf))
       IN  IF early # <<>>
           THEN /\ last' = [req |-> req, smtp |-> "accepted", out |-> early[1]]
                /\ UNCHANGED <<processed_leads, cycles, file, outbox, shutdown_event>>
           ELSE /\ processed_leads' = AddLead(processed_leads, lead_id)
                /\ cycles' = [cycles EXCEPT ![lead_id] = @ + 1]
                /\ IF adf.kind = "doc"
                   THEN /\ file' = WriteFile(file, adf)
                        /\ outbox' = outbox \o notified.mail
                        /\ shutdown_event' = (shutdown_event \/ notified.set)
                        /\ last' = [req |-> req, smtp |-> smtp, out |-> notified.out]
                   ELSE /\ last' = [req |-> req, smtp |-> "accepted",
                                    out |-> NoDocumentAnswer(adf, lead_data)]
                        /\ UNCHANGED <<file, outbox, shutdown_event>>
  /\ nreq' = nreq + 1
  /\ UNCHANGED <<phase, leads, adf_xml, thr>>

Next == Startup \/ handle_webhook

Spec == Init /\ [][Next]_vars

(***************************************************************************)
(* The threaded server of app.run (line 238): every request is handled on  *)
(* a thread of its own, and the threads interleave between statements of   *)
(* handle_webhook.  A thread holds the locals of its call.                 *)
(***************************************************************************)
Threads == DOMAIN thr

NewThread(req, smtp) ==
  [pc |-> "get_json", req |-> req, smtp |-> smtp, lead_data |-> <<>>,
   lead_id |-> <<>>, adf_xml |-> NoDocument, mail |-> <<>>,
   out |-> Outcome(0, <<>>, <<>>, NoExc)]

\* The answer leaves the handler.
Return(t, out) == [thr EXCEPT ![t].pc = "done", ![t].out = out]

\* The server accepts a request and starts its thread.
Accept ==
  /\ phase = "serving"
  /\ nreq < MaxRequests
  /\ \E req \in Bodies, smtp \in SmtpOutcomes :
       thr' = Append(thr, NewThread(req, smtp))
  /\ nreq' = nreq + 1
  /\ UNCHANGED <<phase, leads, adf_xml, processed_leads, shutdown_event, file,
                 outbox, cycles, last>>

\* Lines 168-172: parse the body, reject an empty one, read the identifier.
GetJson(t) ==
  /\ thr[t].pc = "get_json"
  /\ LET got == get_json(thr[t].req)
     IN  thr' =
           IF got.kind = "raise" THEN Return(t, ExceptClause(got.exc, FALSE, PyNone))
           ELSE IF ~Truthy(got.val) THEN Return(t, EmptyAnswer)
           ELSE IF got.val.t # "dict"
           THEN Return(t, ExceptClause("AttributeError", TRUE, got.val))
           ELSE [thr EXCEPT ![t].pc = "check", ![t].lead_data = <<got.val>>,
                            ![t].lead_id = <<Get(got.val.v, "id", PyNone)>>]
  /\ UNCHANGED <<phase, leads, adf_xml, processed_leads, shutdown_event, file,
                 outbox, nreq, cycles, last>>

\* Line 175: the membership test, which hashes the identifier.
Check(t) ==
  /\ thr[t].pc = "check"
  /\ LET lead_id == thr[t].lead_id[1]
     IN  thr' =
           IF ~Hashable(lead_id)
           THEN Return(t, ExceptClause("TypeError", TRUE, thr[t].lead_data[1]))
           ELSE IF IsDuplicate(lead_id, processed_leads)
           THEN Return(t, DuplicateAnswer)
           ELSE [thr EXCEPT ![t].pc = "add"]
  /\ UNCHANGED <<phase, leads, adf_xml, processed_leads, shutdown_event, file,
                 outbox, nreq, cycles, last>>

\* Line 179.
Add(t) ==
  /\ thr[t].pc = "add"
  /\ processed_leads' = AddLead(processed_leads, thr[t].lead_id[1])
  /\ thr' = [thr EXCEPT ![t].pc = "transform", ![t].out.added = TRUE]
  /\ UNCHANGED <<phase, leads, adf_xml, shutdown_event, file, outbox, nreq,
                 cycles, last>>

\* Lines 181-183 and 197-198.
Transform(t) ==
  /\ thr[t].pc = "transform"
  /\ LET adf == generate_adf_xml(thr[t].lead_data)
     IN  thr' =
           IF adf.kind = "doc"
           THEN [thr EXCEPT ![t].pc = "open", ![t].adf_xml = adf, ![t].out.ran = TRUE]
           ELSE Return(t, NoDocumentAnswer(adf, thr[t].lead_data[1]))
  /\ cycles' = [cycles EXCEPT ![thr[t].lead_id[1]] = @ + 1]
  /\ UNCHANGED <<phase, leads, adf_xml, processed_leads, shutdown_event, file,
                 outbox, nreq, last>>

\* Line 184: open(..., "wb") truncates the file.
Open(t) ==
  /\ thr[t].pc = "open"
  /\ file' = EmptyFile
  /\ thr' = [thr EXCEPT ![t].pc = "write"]
  /\ UNCHANGED <<phase, leads, adf_xml, processed_leads, shutdown_event, outbox,
                 nreq, cycles, last>>

\* Line 185 and the end of the with block: the document reaches the file.
Write(t) ==
  /\ thr[t].pc = "write"
  /\ file' = WriteFile(file, thr[t].adf_xml)
  /\ thr' = [thr EXCEPT ![t].pc = "send", ![t].out.wrote = TRUE]
  /\ UNCHANGED <<phase, leads, adf_xml, processed_leads, shutdown_event, outbox,
                 nreq, cycles, last>>

\* Lines 187-196: the mail library reads lead_export.xml when it sends.
Send(t) ==
  /\ thr[t].pc = "send"
  /\ LET notified == Notify(thr[t].lead_data[1], thr[t].smtp, file)
     IN  /\ outbox' = outbox \o notified.mail
         /\ thr' = [thr EXCEPT ![t].pc = "done", ![t].mail = notified.mail,
                               ![t].out = notified.out]
         /\ shutdown_event' = (shutdown_event \/ notified.set)
  /\ UNCHANGED <<phase, leads, adf_xml, processed_leads, file, nreq, cycles, last>>

\* The state once the startup batch fetched no leads and the server started.
InitThreads ==
  /\ phase = "serving"
  /\ leads = <<>>
  /\ adf_xml = NoDocument
  /\ processed_leads = {}
  /\ shutdown_event = FALSE
  /\ file = NoFile
  /\ outbox = <<>>
  /\ nreq = 0
  /\ cycles = [i \in LeadIds |-> 0]
  /\ last = NoRequest
  /\ thr = <<>>

NextThreads ==
  \/ Accept
  \/ \E t \in Threads : GetJson(t)
  \/ \E t \in Threads : Check(t)
  \/ \E t \in Threads : Add(t)
  \/ \E t \in Threads : Transform(t)
  \/ \E t \in Threads : Open(t)
  \/ \E t \in Threads : Write(t)
  \/ \E t \in Threads : Send(t)

SpecThreads == InitThreads /\ [][NextThreads]_vars

(***************************************************************************)
(* Properties.                                                             *)
(***************************************************************************)
\* lead_data.get("id") of a request that reaches line 175 with a hashable
\* identifier, else <<>>.
LeadIdOf(req) ==
  IF req.parses /\ Truthy(req.data) /\ req.data.t = "dict"
     /\ Hashable(Get(req.data.v, "id", PyNone))
  THEN <<Get(req.data.v, "id", PyNone)>> ELSE <<>>

\* The step handles a webhook request whose identifier is already recorded.
RepeatStep ==
  /\ nreq' = nreq + 1
  /\ LeadIdOf(last'.req) # <<>>
  /\ LeadIdOf(last'.req)[1] \in processed_leads

AnsweredDuplicate(out) ==
  /\ out.status = 200
  /\ out.json = Json("message", "Duplicate lead, ignoring")

AnsweredProcessed(out) ==
  /\ out.status = 200
  /\ out.json = Json("message", "Lead processed successfully")

\* C1: with requests handled one at a time, no identifier runs the transform,
\* write and email cycle more than once, and a request whose identifier is
\* already in the dedup set is answered 200 "Duplicate lead, ignoring" with no
\* transform, no file write and no email.
C1_OneCyclePerIdentifier ==
  /\ [](\A id \in LeadIds : cycles[id] <= 1)
  /\ [][RepeatStep => /\ AnsweredDuplicate(last'.out)
                      /\ cycles' = cycles
                      /\ file' = file
                      /\ outbox' = outbox]_vars

C1_Witness ==
  /\ nreq = 2
  /\ AnsweredDuplicate(last.out)
  /\ last.req = Body(LeadAna)
  /\ cycles[PyStr("a")] = 1
  /\ Len(outbox) = 1

\* C2: two requests with the same identifier handled on two threads never both
\* pass the duplicate check and both go on to transform and email.
C2_CheckAndInsertAtomic ==
  \A t1, t2 \in Threads :
    (/\ t1 # t2
     /\ thr[t1].lead_id # <<>>
     /\ thr[t1].lead_id = thr[t2].lead_id)
    => ~(thr[t1].out.emailed /\ thr[t2].out.emailed)

\* The step handles a webhook request whose body is malformed or empty.
BadBodyStep ==
  /\ nreq' = nreq + 1
  /\ ~last'.req.parses \/ ~Truthy(last'.req.data)

\* C3: a request whose body is not JSON or is empty is answered 400 with an
\* error payload, and leaves the dedup set, the file and the outbox unchanged.
C3_BadBodyAnswered400 ==
  [][BadBodyStep => /\ last'.out.status = 400
                    /\ Len(last'.out.json) = 2
                    /\ last'.out.json[1] = "error"
                    /\ processed_leads' = processed_leads
                    /\ file' = file
                    /\ outbox' = outbox]_vars

\* C4: a request with a valid body and a new identifier whose document was
\* written, and whose email the mail service refused, is still answered 200
\* "Lead processed successfully": the failure is logged and raises nothing.
C4_EmailFailureStillSucceeds ==
  (nreq > 0 /\ last.out.wrote /\ last.smtp = "refused")
  => /\ AnsweredProcessed(last.out)
     /\ last.out.exc = NoExc
     /\ \E i \in 1..Len(last.out.log) : last.out.log[i].msg = "Error sending email"

C4_Witness ==
  /\ nreq > 0
  /\ last.out.wrote
  /\ last.smtp = "refused"
  /\ last.req = Body(LeadFull)
  /\ file = generate_adf_xml(<<LeadFull>>)
  /\ outbox = <<>>

\* Every element name in the subtree of an element.
RECURSIVE TagsIn(_)
TagsIn(el) == {el.tag} \cup UNION {TagsIn(el.kids[i]) : i \in 1..Len(el.kids)}

\* The record populates no field other than its identifier.
OnlyIdPopulated(lead) == \A k \in DOMAIN lead \ {"id"} : ~Truthy(lead[k])

\* C5: the prospect of a record that populates nothing but its identifier
\* holds only id elements and the fixed empty stock placeholder.
C5_OmissionOverEmptiness ==
  adf_xml.kind = "doc"
  => \A i \in 1..Len(leads) :
       OnlyIdPopulated(leads[i].v)
       => TagsIn(adf_xml.root.kids[i]) \subseteq {"prospect", "id", "stock"}

ChildrenNamed(el, tag) == SelectSeq(el.kids, LAMBDA e : e.tag = tag)

\* The texts of the tag elements the record's tags sequence calls for.
TagTextsOf(lead) ==
  LET tags == Get(lead, "tags", PyList(<<>>))
  IN  IF tags.t = "list" THEN [j \in 1..Len(tags.v) |-> tags.v[j].v]
      ELSE [j \in 1..Len(tags.v) |-> SubSeq(tags.v, j, j)]

\* The prospect carries the record's identifier and tags, the tags in order.
BuiltFrom(prospect, lead) ==
  /\ prospect.tag = "prospect"
  /\ Len(ChildrenNamed(prospect, "id")) > 0
  /\ \A j \in 1..Len(ChildrenNamed(prospect, "id")) :
       ChildrenNamed(prospect, "id")[j].text = <<Str(Get(lead, "id", PyStr("")))>>
  /\ [j \in 1..Len(ChildrenNamed(prospect, "tag")) |->
        ChildrenNamed(prospect, "tag")[j].text[1]] = TagTextsOf(lead)

\* C6: the document of a non-empty batch has exactly one prospect per record,
\* the i-th built from the i-th record with its tags in order; an empty batch
\* yields no document.
C6_OneProspectPerRecordInOrder ==
  phase = "serving"
  => IF leads = <<>> THEN adf_xml = NoDocument
     ELSE /\ adf_xml.kind = "doc"
          /\ adf_xml.root.tag = "adf"
          /\ Len(adf_xml.root.kids) = Len(leads)
          /\ \A i \in 1..Len(leads) : BuiltFrom(adf_xml.root.kids[i], leads[i].v)

C6_Witness ==
  /\ phase = "serving"
  /\ leads = <<LeadAna, LeadFull>>
  /\ adf_xml.kind = "doc"
  /\ Len(ChildrenNamed(adf_xml.root.kids[1], "tag")) = 2

\* C7: a request ended by an exception other than ValueError, KeyError and
\* TypeError is answered 500 {"error": "Internal Server Error"}, and a log
\* entry of it carries the payload.
C7_UnexpectedIs500WithPayload ==
  (nreq > 0 /\ last.out.exc \notin {NoExc, "ValueError", "KeyError", "TypeError"})
  => /\ last.out.status = 500
     /\ last.out.json = Json("error", "Internal Server Error")
     /\ \E i \in 1..Len(last.out.log) : last.out.log[i].payload = <<last.req.data>>

\* The request of this step reaches the write: a valid body, a new identifier
\* and a transform that returns a document.
WritingStep ==
  /\ nreq' = nreq + 1
  /\ LeadIdOf(last'.req) # <<>>
  /\ LeadIdOf(last'.req)[1] \notin processed_leads
  /\ generate_adf_xml(<<last'.req.data>>).kind = "doc"

\* C8: the file holds the document of the most recent transform that yielded
\* one: the startup batch and every webhook request that yields a document
\* replace the content with that document alone, every other step leaves it.
C8_FileIsLatestDocument ==
  [][file' = IF phase = "startup" /\ generate_adf_xml(leads').kind = "doc"
             THEN generate_adf_xml(leads')
             ELSE IF WritingStep THEN generate_adf_xml(<<last'.req.data>>)
             ELSE file]_vars

C8_Witness ==
  /\ adf_xml.kind = "doc"
  /\ nreq = 2
  /\ AnsweredDuplicate(last.out)
  /\ cycles[PyStr("b")] = 1
  /\ file = generate_adf_xml(<<LeadFull>>)
  /\ file # adf_xml

\* C9: when the requests in flight carry different identifiers, the email sent
\* for a request attaches no document but the one generated from that request's
\* own lead, whatever the other threads do.
C9_EmailCarriesOwnDocument ==
  (\A t1, t2 \in Threads :
     t1 # t2 => /\ thr[t1].lead_id # <<>>
                /\ thr[t2].lead_id # <<>>
                /\ thr[t1].lead_id # thr[t2].lead_id)
  => \A t \in Threads :
       (thr[t].mail # <<>> /\ thr[t].mail[1].attachment.kind = "doc")
       => thr[t].mail[1].attachment = thr[t].adf_xml

\* The identifier of the request of this step, when line 172 read one.
StepLeadId == LeadIdOf(last'.req)[1]

\* C10: the dedup set only grows; a request that ran the transform has its
\* identifier (None for a body with no id) recorded even when the transform
\* raised or the email failed; and a later request with a recorded identifier
\* is answered as a duplicate with no transform and no email.
C10_RecordedBeforeTransform ==
  [][/\ processed_leads \subseteq processed_leads'
     /\ (nreq' = nreq + 1 /\ cycles' # cycles) => StepLeadId \in processed_leads'
     /\ RepeatStep => /\ AnsweredDuplicate(last'.out)
                      /\ ~last'.out.ran
                      /\ ~last'.out.emailed
                      /\ cycles' = cycles
                      /\ outbox' = outbox]_vars

C10_Witness ==
  /\ nreq = 2
  /\ last.req = Body(LeadFull)
  /\ AnsweredDuplicate(last.out)
  /\ cycles[PyStr("b")] = 1
  /\ file = NoFile
  /\ outbox = <<>>

\* A second body with no id is answered as a duplicate of the first.
NoIdRepeated ==
  /\ nreq = 2
  /\ last.req = Body(LeadNoId)
  /\ AnsweredDuplicate(last.out)
  /\ PyNone \in processed_leads
  /\ cycles[PyNone] = 1

====
